---- MODULE Spec2Model ----
(***************************************************************************)
(* A model of src/app.py: the /code-interpreter endpoint.                  *)
(*                                                                         *)
(*   execute_python_code   lines 51-69   redirect sys.stdout, exec, restore *)
(*   analyze_error_with_ai lines 75-136  credential check, AI call, parse,  *)
(*                                       regex fallback                     *)
(*   code_interpreter      lines 142-163 the request handler                *)
(*                                                                         *)
(* Every request walks through the statements of these three functions.    *)
(* pc[r] names the source line request r executes next.  sys.stdout is the  *)
(* one process-wide variable the requests share.                           *)
(*                                                                         *)
(* Spec     : requests are served one at a time (no two overlap).          *)
(* SpecConc : the statements of different requests interleave freely, as   *)
(*            under the thread pool that serves a synchronous endpoint.    *)
(***************************************************************************)
EXTENDS Integers, Sequences, FiniteSets

\* ------------------------------------------------------------------ bounds
NumReqs == 2
MaxWrites == 2

Reqs == 1..NumReqs

\* ------------------------------------------------------------------ text
\* Text is a sequence of tokens.  All tokens share one record shape.
Tok(k, x, y) == [kind |-> k, a |-> x, b |-> y]
\* the i-th piece of text the code of request r prints
Out(r, i) == Tok("out", r, i)
\* the literal "line " inside a traceback
LineTok == Tok("line", 0, 0)
\* one decimal digit
Digit(d) == Tok("digit", d, 0)
\* any other traceback text
Txt == Tok("text", 0, 0)
\* a diagnostic the handler of request r prints ("Missing GEMINI_API_KEY", "AI Error: ...")
Log(r) == Tok("log", r, 0)

IsDigit(t) == t.kind = "digit"

\* What traceback.format_exc() can produce.
\*   TraceExec   : File "app.py", line 60, in execute_python_code / File "<string>", line 1
\*   TraceGetval : File "app.py", line 61, in execute_python_code
\*   TraceMsg    : "line " followed by a non-digit before the first real marker
\*   TraceNone   : a text without any "line <digits>" marker
TraceExec == <<Txt, LineTok, Digit(6), Digit(0), Txt, LineTok, Digit(1), Txt>>
TraceGetval == <<Txt, LineTok, Digit(6), Digit(1), Txt>>
TraceMsg == <<LineTok, Txt, LineTok, Digit(3), Txt>>
TraceNone == <<Txt, LineTok, Txt>>
Traces == {TraceExec, TraceMsg, TraceNone}

\* ------------------------------------------------------------------ JSON
\* A value as the handler's "error" field sees it: a list of integers, or
\* something that is not one.
IntList(s) == [t |-> "ints", v |-> s]
StrVal == [t |-> "str", v |-> <<>>]
NullVal == [t |-> "null", v |-> <<>>]

\* The text of an AI response: valid JSON or not, its top-level type, and
\* whether the object has the key error_lines (and then its value).
NonJsonBody == [valid |-> FALSE, top |-> "none", has |-> FALSE, val |-> NullVal]
ObjBody(s) == [valid |-> TRUE, top |-> "object", has |-> TRUE, val |-> IntList(s)]
ObjNoField == [valid |-> TRUE, top |-> "object", has |-> FALSE, val |-> NullVal]
ObjStrField == [valid |-> TRUE, top |-> "object", has |-> TRUE, val |-> StrVal]
ArrayBody == [valid |-> TRUE, top |-> "array", has |-> FALSE, val |-> NullVal]
Bodies == {NonJsonBody, ObjBody(<<>>), ObjBody(<<3, 7>>), ObjNoField,
           ObjStrField, ArrayBody}

\* ------------------------------------------------------------------ regex
\* re.search(r'line (\d+)', tb): the leftmost "line " that a digit follows.
MatchAt(tb, i) == i < Len(tb) /\ tb[i] = LineTok /\ IsDigit(tb[i + 1])

HasMatch(tb) == \E i \in 1..Len(tb) : MatchAt(tb, i)

FirstMatch(tb) == CHOOSE i \in 1..Len(tb) :
                     MatchAt(tb, i) /\ \A j \in 1..(i - 1) : ~MatchAt(tb, j)

\* (\d+) is greedy: the whole run of digits that starts at position i
RECURSIVE DigitRun(_, _)
DigitRun(tb, i) ==
    IF i <= Len(tb) /\ IsDigit(tb[i])
    THEN <<tb[i].a>> \o DigitRun(tb, i + 1)
    ELSE <<>>

\* int(match.group(1))
RECURSIVE IntOf(_)
IntOf(ds) ==
    IF ds = <<>> THEN 0
    ELSE 10 * IntOf(SubSeq(ds, 1, Len(ds) - 1)) + ds[Len(ds)]

\* lines 132-136
FallbackLines(tb) ==
    IF HasMatch(tb)
    THEN IntList(<<IntOf(DigitRun(tb, FirstMatch(tb) + 1))>>)
    ELSE IntList(<<>>)

\* ------------------------------------------------------------------ state
VARIABLES
    pc,          \* pc[r]: the line request r executes next
    code,        \* code[r]: the submitted program
    ip,          \* ip[r]: how many of its print statements have run
    stdout,      \* sys.stdout: Orig, or the StringIO of request r
    old_stdout,  \* old_stdout[r]: the local of execute_python_code
    buf,         \* buf[r]: the contents of the StringIO request r created
    exc,         \* exc[r]: the exception in flight in request r
    execution,   \* execution[r]: what execute_python_code returned
    api_key,     \* os.environ.get("GEMINI_API_KEY")
    ai,          \* ai[r]: outcome of generate_content, "none" before the call
    body,        \* body[r]: response.text
    ret,         \* ret[r]: what analyze_error_with_ai returned
    response,    \* response[r]: what code_interpreter returned
    path,        \* path[r]: the lifecycle states request r went through
    overlapped   \* overlapped[r]: another request was in flight while r executed

vars == <<pc, code, ip, stdout, old_stdout, buf, exc, execution, api_key, ai,
          body, ret, response, path, overlapped>>

\* the stream installed before any request began
Orig == 0

Ends == {"ok", "Exception", "BaseException"}
Programs == [n : 0..MaxWrites, end : Ends]

\* os.environ.get returns None or a string; "None" stands for None
KeyValues == {"None", "", "secret"}

NoExecution == [success |-> FALSE, output |-> <<>>]
NoResponse == [error |-> IntList(<<>>), result |-> <<>>]

Init ==
    /\ pc = [r \in Reqs |-> "idle"]
    /\ code = [r \in Reqs |-> [n |-> 0, end |-> "ok"]]
    /\ ip = [r \in Reqs |-> 0]
    /\ stdout = Orig
    /\ old_stdout = [r \in Reqs |-> Orig]
    /\ buf = [r \in Reqs |-> <<>>]
    /\ exc = [r \in Reqs |-> "none"]
    /\ execution = [r \in Reqs |-> NoExecution]
    /\ api_key \in KeyValues
    /\ ai = [r \in Reqs |-> "none"]
    /\ body = [r \in Reqs |-> NonJsonBody]
    /\ ret = [r \in Reqs |-> IntList(<<>>)]
    /\ response = [r \in Reqs |-> NoResponse]
    /\ path = [r \in Reqs |-> <<>>]
    /\ overlapped = [r \in Reqs |-> FALSE]

\* print(...) and sys.stdout.write(...): the text goes to whatever sys.stdout
\* is at that moment; text written to the original stream leaves the process
WriteTo(s, tok) ==
    IF s = Orig THEN buf ELSE [buf EXCEPT ![s] = Append(@, tok)]

\* reference counting: a StringIO is freed as soon as neither sys.stdout nor
\* any call's old_stdout refers to it; b is the buffers, s the new sys.stdout,
\* o the new old_stdout locals
Collect(b, s, o) ==
    [x \in Reqs |-> IF s = x \/ \E q \in Reqs : o[q] = x THEN b[x] ELSE <<>>]

\* a request the server is working on
InFlight(p) == p \notin {"idle", "responded", "raised", "done"}
\* a request inside execute_python_code
InExecute(p) == p \in {"L56", "L57", "L60", "L61", "L65", "L69"}

\* bookkeeping, part of every step: r was inside execute_python_code while
\* another request was in flight
Observe ==
    overlapped' = [r \in Reqs |->
        \/ overlapped[r]
        \/ /\ InExecute(pc'[r])
           /\ \E q \in Reqs \ {r} : InFlight(pc'[q])]

\* ------------------------------------------------------------------ handler
\* line 143-145: a request arrives and the handler calls execute_python_code
Receive(r) ==
    /\ pc[r] = "idle"
    /\ \E p \in Programs : code' = [code EXCEPT ![r] = p]
    /\ pc' = [pc EXCEPT ![r] = "L56"]
    /\ path' = [path EXCEPT ![r] = <<"received">>]
    /\ UNCHANGED <<ip, stdout, old_stdout, buf, exc, execution, api_key, ai,
                   body, ret, response>>
    /\ Observe

\* line 56: old_stdout = sys.stdout
Save(r) ==
    /\ pc[r] = "L56"
    /\ old_stdout' = [old_stdout EXCEPT ![r] = stdout]
    /\ pc' = [pc EXCEPT ![r] = "L57"]
    /\ UNCHANGED <<code, ip, stdout, buf, exc, execution, api_key, ai, body,
                   ret, response, path>>
    /\ Observe

\* line 57: sys.stdout = StringIO()
Install(r) ==
    /\ pc[r] = "L57"
    /\ buf' = Collect([buf EXCEPT ![r] = <<>>], r, old_stdout)
    /\ stdout' = r
    /\ pc' = [pc EXCEPT ![r] = "L60"]
    /\ UNCHANGED <<code, ip, old_stdout, exc, execution, api_key, ai, body,
                   ret, response, path>>
    /\ Observe

\* ExecWrite with the text sent to the stream saved at line 56 instead of the
\* current sys.stdout
ExecWriteToOld(r) ==
    /\ pc[r] = "L60"
    /\ ip[r] < code[r].n
    /\ ip' = [ip EXCEPT ![r] = @ + 1]
    /\ buf' = WriteTo(old_stdout[r], Out(r, ip[r] + 1))
    /\ UNCHANGED <<pc, code, stdout, old_stdout, exc, execution, api_key, ai,
                   body, ret, response, path>>
    /\ Observe

\* line 60: exec(code), one print statement of the submitted code
ExecWrite(r) ==
    /\ pc[r] = "L60"
    /\ ip[r] < code[r].n
    /\ ip' = [ip EXCEPT ![r] = @ + 1]
    /\ buf' = WriteTo(stdout, Out(r, ip[r] + 1))
    /\ UNCHANGED <<pc, code, stdout, old_stdout, exc, execution, api_key, ai,
                   body, ret, response, path>>
    /\ Observe

\* line 60: exec(code) ends: normally, with an Exception (caught at line 64),
\* or with a BaseException that is no Exception (SystemExit, KeyboardInterrupt),
\* which line 64 does not catch
ExecEnd(r) ==
    /\ pc[r] = "L60"
    /\ ip[r] = code[r].n
    /\ pc' = [pc EXCEPT ![r] = CASE code[r].end = "ok" -> "L61"
                                 [] code[r].end = "Exception" -> "L65"
                                 [] OTHER -> "L69"]
    /\ exc' = [exc EXCEPT ![r] = IF code[r].end = "ok" THEN "none" ELSE code[r].end]
    /\ UNCHANGED <<code, ip, stdout, old_stdout, buf, execution, api_key, ai,
                   body, ret, response, path>>
    /\ Observe

\* lines 61-62: output = sys.stdout.getvalue(); the original stream has no
\* getvalue, so the lookup raises AttributeError, which line 64 catches
GetValue(r) ==
    /\ pc[r] = "L61"
    /\ IF stdout = Orig
       THEN /\ exc' = [exc EXCEPT ![r] = "AttributeError"]
            /\ pc' = [pc EXCEPT ![r] = "L65"]
            /\ UNCHANGED execution
       ELSE /\ execution' = [execution EXCEPT
                               ![r] = [success |-> TRUE, output |-> buf[stdout]]]
            /\ pc' = [pc EXCEPT ![r] = "L69"]
            /\ UNCHANGED exc
    /\ UNCHANGED <<code, ip, stdout, old_stdout, buf, api_key, ai, body, ret,
                   response, path>>
    /\ Observe

\* lines 64-66: output = traceback.format_exc()
FormatExc(r) ==
    /\ pc[r] = "L65"
    /\ \E tb \in (IF exc[r] = "AttributeError" THEN {TraceGetval} ELSE Traces) :
          execution' = [execution EXCEPT ![r] = [success |-> FALSE, output |-> tb]]
    /\ exc' = [exc EXCEPT ![r] = "none"]
    /\ pc' = [pc EXCEPT ![r] = "L69"]
    /\ UNCHANGED <<code, ip, stdout, old_stdout, buf, api_key, ai, body, ret,
                   response, path>>
    /\ Observe

\* Restore without the finally: the stream is put back before each return,
\* and not when an exception leaves the function
RestoreOnReturnOnly(r) ==
    /\ pc[r] = "L69"
    /\ IF exc[r] = "none"
       THEN /\ stdout' = old_stdout[r]
            /\ buf' = Collect(buf, old_stdout[r], [old_stdout EXCEPT ![r] = Orig])
            /\ pc' = [pc EXCEPT ![r] = "L148"]
            /\ path' = [path EXCEPT ![r] = Append(@,
                          IF execution[r].success THEN "executed_success"
                                                  ELSE "executed_failure")]
       ELSE /\ pc' = [pc EXCEPT ![r] = "raised"]
            /\ UNCHANGED <<stdout, buf, path>>
    /\ old_stdout' = [old_stdout EXCEPT ![r] = Orig]
    /\ UNCHANGED <<code, ip, exc, execution, api_key, ai, body, ret, response>>
    /\ Observe

\* lines 68-69: finally: sys.stdout = old_stdout; then the return of line 62
\* or 66 completes, or the uncaught exception leaves the function and, the
\* handler having no try, the handler; the local old_stdout is gone with
\* the frame
Restore(r) ==
    /\ pc[r] = "L69"
    /\ stdout' = old_stdout[r]
    /\ IF exc[r] = "none"
       THEN /\ pc' = [pc EXCEPT ![r] = "L148"]
            /\ path' = [path EXCEPT ![r] = Append(@,
                          IF execution[r].success THEN "executed_success"
                                                  ELSE "executed_failure")]
       ELSE /\ pc' = [pc EXCEPT ![r] = "raised"]
            /\ UNCHANGED path
    /\ old_stdout' = [old_stdout EXCEPT ![r] = Orig]
    /\ buf' = Collect(buf, old_stdout[r], [old_stdout EXCEPT ![r] = Orig])
    /\ UNCHANGED <<code, ip, exc, execution, api_key, ai, body, ret, response>>
    /\ Observe

\* Branch with the test of line 148 dropped: the analyzer is called for
\* every execution
BranchAlwaysAnalyzes(r) ==
    /\ pc[r] = "L148"
    /\ pc' = [pc EXCEPT ![r] = "L77"]
    /\ UNCHANGED <<code, ip, stdout, old_stdout, buf, exc, execution, api_key,
                   ai, body, ret, response, path>>
    /\ Observe

\* lines 148-158: if execution["success"]: return ...; else call the analyzer
Branch(r) ==
    /\ pc[r] = "L148"
    /\ IF execution[r].success
       THEN /\ response' = [response EXCEPT
                  ![r] = [error |-> IntList(<<>>), result |-> execution[r].output]]
            /\ pc' = [pc EXCEPT ![r] = "responded"]
            /\ path' = [path EXCEPT ![r] = Append(@, "responded")]
       ELSE /\ pc' = [pc EXCEPT ![r] = "L77"]
            /\ UNCHANGED <<response, path>>
    /\ UNCHANGED <<code, ip, stdout, old_stdout, buf, exc, execution, api_key,
                   ai, body, ret>>
    /\ Observe

\* CheckKey with the early return of line 81 replaced by the regex fallback
CheckKeyFallsBack(r) ==
    /\ pc[r] = "L77"
    /\ IF api_key = "None" \/ api_key = ""
       THEN /\ buf' = WriteTo(stdout, Log(r))
            /\ pc' = [pc EXCEPT ![r] = "L132"]
       ELSE /\ pc' = [pc EXCEPT ![r] = "L83"]
            /\ UNCHANGED buf
    /\ UNCHANGED <<code, ip, stdout, old_stdout, exc, execution, api_key, ai,
                   body, ret, response, path>>
    /\ Observe

\* lines 77-81: if not api_key: print("Missing GEMINI_API_KEY"); return []
CheckKey(r) ==
    /\ pc[r] = "L77"
    /\ IF api_key = "None" \/ api_key = ""
       THEN /\ buf' = WriteTo(stdout, Log(r))
            /\ ret' = [ret EXCEPT ![r] = IntList(<<>>)]
            /\ pc' = [pc EXCEPT ![r] = "L160"]
            /\ path' = [path EXCEPT ![r] = Append(@, "localized")]
       ELSE /\ pc' = [pc EXCEPT ![r] = "L83"]
            /\ UNCHANGED <<buf, ret, path>>
    /\ UNCHANGED <<code, ip, stdout, old_stdout, exc, execution, api_key, ai,
                   body, response>>
    /\ Observe

\* line 83: client = genai.Client(api_key=api_key), outside every try
Client(r) ==
    /\ pc[r] = "L83"
    /\ \E ok \in BOOLEAN :
          IF ok
          THEN /\ pc' = [pc EXCEPT ![r] = "L103"]
               /\ UNCHANGED exc
          ELSE /\ pc' = [pc EXCEPT ![r] = "raised"]
               /\ exc' = [exc EXCEPT ![r] = "ClientError"]
    /\ UNCHANGED <<code, ip, stdout, old_stdout, buf, execution, api_key, ai,
                   body, ret, response, path>>
    /\ Observe

\* lines 102-119: the one call of the external service
Generate(r) ==
    /\ pc[r] = "L103"
    /\ \/ \E b \in Bodies :
             /\ ai' = [ai EXCEPT ![r] = "ok"]
             /\ body' = [body EXCEPT ![r] = b]
             /\ pc' = [pc EXCEPT ![r] = "L123"]
       \/ \E e \in {"network_error", "service_error"} :
             /\ ai' = [ai EXCEPT ![r] = e]
             /\ pc' = [pc EXCEPT ![r] = "L129"]
             /\ UNCHANGED body
    /\ UNCHANGED <<code, ip, stdout, old_stdout, buf, exc, execution, api_key,
                   ret, response, path>>
    /\ Observe

\* Parse with data["error_lines"] in place of data.get("error_lines", []):
\* a missing key raises KeyError, which the bare except passes on
ParseIndexes(r) ==
    /\ pc[r] = "L123"
    /\ IF body[r].valid /\ body[r].top = "object" /\ body[r].has
       THEN /\ ret' = [ret EXCEPT ![r] = body[r].val]
            /\ pc' = [pc EXCEPT ![r] = "L160"]
            /\ path' = [path EXCEPT ![r] = Append(@, "localized")]
       ELSE /\ pc' = [pc EXCEPT ![r] = "L132"]
            /\ UNCHANGED <<ret, path>>
    /\ UNCHANGED <<code, ip, stdout, old_stdout, buf, exc, execution, api_key,
                   ai, body, response>>
    /\ Observe

\* Parse without the return of line 124: the parsed value is dropped and the
\* regex fallback always runs
ParseDropsResult(r) ==
    /\ pc[r] = "L123"
    /\ pc' = [pc EXCEPT ![r] = "L132"]
    /\ UNCHANGED <<code, ip, stdout, old_stdout, buf, exc, execution, api_key,
                   ai, body, ret, response, path>>
    /\ Observe

\* lines 122-126: data = json.loads(response.text);
\* return data.get("error_lines", []); a bare except passes on to the fallback
\* (json.loads raises on text that is not JSON; a value that is no object has
\* no usable get)
Parse(r) ==
    /\ pc[r] = "L123"
    /\ IF body[r].valid /\ body[r].top = "object"
       THEN /\ ret' = [ret EXCEPT
                         ![r] = IF body[r].has THEN body[r].val ELSE IntList(<<>>)]
            /\ pc' = [pc EXCEPT ![r] = "L160"]
            /\ path' = [path EXCEPT ![r] = Append(@, "localized")]
       ELSE /\ pc' = [pc EXCEPT ![r] = "L132"]
            /\ UNCHANGED <<ret, path>>
    /\ UNCHANGED <<code, ip, stdout, old_stdout, buf, exc, execution, api_key,
                   ai, body, response>>
    /\ Observe

\* lines 128-129: except Exception as e: print("AI Error:", e)
PrintAIError(r) ==
    /\ pc[r] = "L129"
    /\ buf' = WriteTo(stdout, Log(r))
    /\ pc' = [pc EXCEPT ![r] = "L132"]
    /\ UNCHANGED <<code, ip, stdout, old_stdout, exc, execution, api_key, ai,
                   body, ret, response, path>>
    /\ Observe

\* lines 131-136: the regex fallback over the traceback
Fallback(r) ==
    /\ pc[r] = "L132"
    /\ ret' = [ret EXCEPT ![r] = FallbackLines(execution[r].output)]
    /\ pc' = [pc EXCEPT ![r] = "L160"]
    /\ path' = [path EXCEPT ![r] = Append(@, "localized")]
    /\ UNCHANGED <<code, ip, stdout, old_stdout, buf, exc, execution, api_key,
                   ai, body, response>>
    /\ Observe

\* lines 160-163: return {"error": error_lines, "result": execution["output"]}
Respond(r) ==
    /\ pc[r] = "L160"
    /\ response' = [response EXCEPT
                      ![r] = [error |-> ret[r], result |-> execution[r].output]]
    /\ pc' = [pc EXCEPT ![r] = "responded"]
    /\ path' = [path EXCEPT ![r] = Append(@, "responded")]
    /\ UNCHANGED <<code, ip, stdout, old_stdout, buf, exc, execution, api_key,
                   ai, body, ret>>
    /\ Observe

\* ------------------------------------------------------------------ scheduling
\* the handler's frame is gone: the response went to the client, or the
\* exception to the framework, and the locals are dropped; a StringIO that
\* nothing refers to any more is collected
Return(r) ==
    /\ pc[r] \in {"responded", "raised"}
    /\ pc' = [pc EXCEPT ![r] = "done"]
    /\ code' = [code EXCEPT ![r] = [n |-> 0, end |-> "ok"]]
    /\ ip' = [ip EXCEPT ![r] = 0]
    /\ exc' = [exc EXCEPT ![r] = "none"]
    /\ execution' = [execution EXCEPT ![r] = NoExecution]
    /\ ai' = [ai EXCEPT ![r] = "none"]
    /\ body' = [body EXCEPT ![r] = NonJsonBody]
    /\ ret' = [ret EXCEPT ![r] = IntList(<<>>)]
    /\ response' = [response EXCEPT ![r] = NoResponse]
    /\ path' = [path EXCEPT ![r] = <<>>]
    /\ overlapped' = [overlapped EXCEPT ![r] = FALSE]
    /\ UNCHANGED <<stdout, old_stdout, buf, api_key>>

\* the worker goes back to the pool and can serve another request; its next
\* StringIO is a new object, so the old one must be gone
Recycle(r) ==
    /\ pc[r] = "done"
    /\ stdout # r
    /\ \A q \in Reqs \ {r} : old_stdout[q] # r
    /\ pc' = [pc EXCEPT ![r] = "idle"]
    /\ UNCHANGED <<code, ip, buf, stdout, old_stdout, exc, execution, api_key, ai,
                   body, ret, response, path, overlapped>>

\* a server that takes the next request only when no other is being served
SeqReceive(r) ==
    /\ \A q \in Reqs \ {r} : pc[q] \in {"idle", "done"}
    /\ Receive(r)

\* one request at a time, any number of them one after the other
SeqNext ==
    \E r \in Reqs :
        \/ SeqReceive(r)
        \/ Save(r)
        \/ Install(r)
        \/ ExecWrite(r)
        \/ ExecEnd(r)
        \/ GetValue(r)
        \/ FormatExc(r)
        \/ Restore(r)
        \/ Branch(r)
        \/ CheckKey(r)
        \/ Client(r)
        \/ Generate(r)
        \/ Parse(r)
        \/ PrintAIError(r)
        \/ Fallback(r)
        \/ Respond(r)
        \/ Return(r)
        \/ Recycle(r)

\* the two requests of the concurrent scenario
ConcReqs == {1, 2}

\* two requests, each served once, whose statements interleave freely
ConcNext ==
    \E r \in ConcReqs :
        \/ Receive(r)
        \/ Save(r)
        \/ Install(r)
        \/ ExecWrite(r)
        \/ ExecEnd(r)
        \/ GetValue(r)
        \/ FormatExc(r)
        \/ Restore(r)
        \/ Branch(r)
        \/ CheckKey(r)
        \/ Client(r)
        \/ Generate(r)
        \/ Parse(r)
        \/ PrintAIError(r)
        \/ Fallback(r)
        \/ Respond(r)
        \/ Return(r)

Spec == Init /\ [][SeqNext]_vars

SpecConc == Init /\ [][ConcNext]_vars

\* ------------------------------------------------------------------ claims
\* the text the code of request r writes when it runs to completion
OwnText(r) == [i \in 1..code[r].n |-> Out(r, i)]

KeyMissing == api_key = "None" \/ api_key = ""

InAnalyzer(p) == p \in {"L77", "L83", "L103", "L123", "L129", "L132"}

\* execute_python_code has returned to the handler
AfterExecute(p) == InAnalyzer(p) \/ p \in {"L148", "L160", "responded"}

\* the AI returned a JSON object whose error_lines is a list of integers
WellFormed(b) == b.valid /\ b.top = "object" /\ b.has /\ b.val.t = "ints"

IsPrefix(s, t) == Len(s) <= Len(t) /\ SubSeq(t, 1, Len(s)) = s

SuccessPath == <<"received", "executed_success", "responded">>
FailurePath == <<"received", "executed_failure", "localized", "responded">>

C2_StdoutRestored ==
    (\A r \in Reqs : ~InExecute(pc[r])) => stdout = Orig

\* C2 witness: the code printed and then raised a BaseException, which left
\* execute_python_code through the finally
C2_Witness ==
    \E r \in Reqs :
        /\ pc[r] = "raised"
        /\ exc[r] = "BaseException"
        /\ ip[r] > 0
        /\ stdout = Orig

\* C3: analyze_error_with_ai never raises, always returns a sequence, and in
\* every failure mode (no credential, failed AI call, response that is not a
\* JSON object) the sequence is empty or the one line taken from the trace.
C3_NeverRaises ==
    \A r \in Reqs :
        /\ ~(pc[r] = "raised" /\ exc[r] = "ClientError")
        /\ (pc[r] = "L160" \/ (pc[r] = "responded" /\ ~execution[r].success)) =>
              /\ ret[r].t = "ints"
              /\ (ai[r] # "ok" \/ ~(body[r].valid /\ body[r].top = "object")) =>
                    \/ ret[r] = IntList(<<>>)
                    \/ ret[r] = FallbackLines(execution[r].output)

C6_AILinesReturned ==
    \A r \in Reqs :
        (pc[r] = "responded" /\ ai[r] = "ok" /\ WellFormed(body[r])) =>
            response[r] = [error |-> body[r].val, result |-> execution[r].output]

\* C6 witness: the AI said [3, 7] where the fallback would say [60]
C6_Witness ==
    \E r \in Reqs :
        /\ pc[r] = "responded"
        /\ ai[r] = "ok"
        /\ body[r] = ObjBody(<<3, 7>>)
        /\ FallbackLines(execution[r].output) = IntList(<<60>>)
        /\ response[r].error = IntList(<<3, 7>>)

\* C7: every fault raised while the submitted code is evaluated becomes
\* {success: false, output: <trace>}; none leaves execute_python_code or the
\* handler.
C7_FaultsConverted ==
    \A r \in Reqs :
        code[r].end # "ok" =>
            /\ pc[r] # "raised"
            /\ AfterExecute(pc[r]) =>
                  (~execution[r].success /\ execution[r].output \in Traces)

\* C8: a request goes received -> executed(success) -> responded or
\* received -> executed(failure) -> localized -> responded, visits no state
\* twice, and ends nowhere but in responded.
C8_TwoPaths ==
    \A r \in Reqs :
        /\ IsPrefix(path[r], SuccessPath) \/ IsPrefix(path[r], FailurePath)
        /\ pc[r] # "raised"

\* C9: overlapping executions can return an output that is not the text the
\* request's own code wrote (the witness); an execution that no other request
\* overlapped returns exactly its own text.
C9_CleanWithoutOverlap ==
    \A r \in Reqs :
        (code[r].end = "ok" /\ AfterExecute(pc[r]) /\ ~overlapped[r]) =>
            execution[r] = [success |-> TRUE, output |-> OwnText(r)]

\* C9 witness: two overlapping requests, both answered as successes: the
\* output of one holds text the other's code wrote, and the output of the
\* other lacks text its own code wrote
C9_Witness ==
    \E r \in Reqs, q \in Reqs :
        /\ r # q
        /\ pc[r] = "responded" /\ execution[r].success /\ code[r].end = "ok"
        /\ pc[q] = "responded" /\ execution[q].success /\ code[q].end = "ok"
        /\ \E i \in 1..Len(response[r].result) : response[r].result[i] = Out(q, 1)
        /\ code[q].n > 0
        /\ \A i \in 1..Len(response[q].result) : response[q].result[i] # Out(q, 1)

\* C10: once every request has returned, sys.stdout is the original stream.
C10_OrigRestored ==
    (\A r \in Reqs : ~InFlight(pc[r])) => stdout = Orig

====
